---- MODULE Spec2Model ----
(***************************************************************************)
(* The USCIS decision pipeline of process_case_from_url.py: cache lookup,  *)
(* PDF download, text extraction, model call, JSON parse and cache write,  *)
(* run by several callers against one shared cache directory; and its      *)
(* parts run on their own: the fetcher, the prompt's text window, the       *)
(* cache store, the cache key; and the web handler that calls it.           *)
(***************************************************************************)
EXTENDS Integers, Sequences, FiniteSets, TLC

(* ------------------------------ bounds -------------------------------- *)

\* Total number of process_uscis_case calls started in one behaviour.
MaxCalls == 2

\* How many save_cached_case calls the threads that use the cache store on
\* its own make in all.
MaxPuts == 2

\* How far below and above the prompt's character budget the extracted texts
\* of the truncation runs reach, and how long the short ones get.
MaxExtra == 2

\* The callers (web requests, CLI runs) that may call process_uscis_case.
Callers == {"c1", "c2"}

\* The URLs the callers pass in.
URLS == {"https://www.uscis.gov/a.pdf", "https://www.uscis.gov/b.pdf"}

(* --------------------------- Python values ---------------------------- *)

\* Python's None, as the value of a local variable or a return value.
PyNone == [py_none |-> TRUE]

\* JSON null inside a parsed object (json.loads gives None for it).
JsonNull == "<null>"

\* message.content when the model returns no text (a refusal, a tool call).
RawNone == "<None>"

EmptyDict == [f \in {} |-> ""]

\* The 16 fields the prompt asks for.
FIELDS ==
    {"case_id", "visa_type", "case_type", "beneficiary_role", "decision_outcome",
     "decision_date", "service_center", "aao_docket_number", "regulatory_citations",
     "issues", "criteria_met", "criteria_not_met", "procedural_issues",
     "key_evidence", "risk_factors", "notes"}

\* The values the prompt allows for decision_outcome.
OUTCOMES ==
    {"approved", "denied", "dismissed", "sustained", "withdrawn", "remanded", "unknown"}

(* ------------------ the model backend's possible answers --------------- *)

RawFullA ==
    "{\"case_id\":\"ABC123\",\"visa_type\":\"O-1\",\"case_type\":\"unknown\",\"beneficiary_role\":null,\"decision_outcome\":\"approved\",\"decision_date\":null,\"service_center\":null,\"aao_docket_number\":null,\"regulatory_citations\":[],\"issues\":[],\"criteria_met\":[],\"criteria_not_met\":[],\"procedural_issues\":[],\"key_evidence\":[],\"risk_factors\":[],\"notes\":\"\"}"
RawFullB ==
    "{\"case_id\":\"XYZ789\",\"visa_type\":\"H-1B\",\"case_type\":\"unknown\",\"beneficiary_role\":null,\"decision_outcome\":\"denied\",\"decision_date\":null,\"service_center\":null,\"aao_docket_number\":null,\"regulatory_citations\":[],\"issues\":[],\"criteria_met\":[],\"criteria_not_met\":[],\"procedural_issues\":[],\"key_evidence\":[],\"risk_factors\":[],\"notes\":\"\"}"
RawUnknownId ==
    "{\"case_id\":\"unknown\",\"visa_type\":\"O-1\",\"case_type\":\"unknown\",\"beneficiary_role\":null,\"decision_outcome\":\"dismissed\",\"decision_date\":null,\"service_center\":null,\"aao_docket_number\":null,\"regulatory_citations\":[],\"issues\":[],\"criteria_met\":[],\"criteria_not_met\":[],\"procedural_issues\":[],\"key_evidence\":[],\"risk_factors\":[],\"notes\":\"\"}"
RawNullId ==
    "{\"case_id\":null,\"visa_type\":\"O-1\",\"case_type\":\"unknown\",\"beneficiary_role\":null,\"decision_outcome\":\"dismissed\",\"decision_date\":null,\"service_center\":null,\"aao_docket_number\":null,\"regulatory_citations\":[],\"issues\":[],\"criteria_met\":[],\"criteria_not_met\":[],\"procedural_issues\":[],\"key_evidence\":[],\"risk_factors\":[],\"notes\":\"\"}"
RawBadOutcome ==
    "{\"case_id\":\"\",\"visa_type\":\"O-1\",\"case_type\":\"unknown\",\"beneficiary_role\":null,\"decision_outcome\":\"granted\",\"decision_date\":null,\"service_center\":null,\"aao_docket_number\":null,\"regulatory_citations\":[],\"issues\":[],\"criteria_met\":[],\"criteria_not_met\":[],\"procedural_issues\":[],\"key_evidence\":[],\"risk_factors\":[],\"notes\":\"\"}"
RawEmptyObject ==
    "{}"

\* A response cut off by the token limit: not valid JSON.
RawTruncated ==
    "{\"case_id\": \"AB"

\* Everything response.choices[0].message.content can be in this model: two
\* complete records, a record whose case_id is "unknown", one whose case_id is
\* null, one with an empty case_id and a decision_outcome outside the permitted
\* values, an object with no field at all, a cut-off answer, and no content.
RawOutputs ==
    {RawFullA, RawFullB, RawUnknownId, RawNullId, RawBadOutcome, RawEmptyObject,
     RawTruncated, RawNone}

DictFullA ==
    [case_id |-> "ABC123", visa_type |-> "O-1", case_type |-> "unknown", beneficiary_role |-> JsonNull, decision_outcome |-> "approved", decision_date |-> JsonNull, service_center |-> JsonNull, aao_docket_number |-> JsonNull, regulatory_citations |-> <<>>, issues |-> <<>>, criteria_met |-> <<>>, criteria_not_met |-> <<>>, procedural_issues |-> <<>>, key_evidence |-> <<>>, risk_factors |-> <<>>, notes |-> ""]
DictFullB ==
    [case_id |-> "XYZ789", visa_type |-> "H-1B", case_type |-> "unknown", beneficiary_role |-> JsonNull, decision_outcome |-> "denied", decision_date |-> JsonNull, service_center |-> JsonNull, aao_docket_number |-> JsonNull, regulatory_citations |-> <<>>, issues |-> <<>>, criteria_met |-> <<>>, criteria_not_met |-> <<>>, procedural_issues |-> <<>>, key_evidence |-> <<>>, risk_factors |-> <<>>, notes |-> ""]
DictUnknownId ==
    [case_id |-> "unknown", visa_type |-> "O-1", case_type |-> "unknown", beneficiary_role |-> JsonNull, decision_outcome |-> "dismissed", decision_date |-> JsonNull, service_center |-> JsonNull, aao_docket_number |-> JsonNull, regulatory_citations |-> <<>>, issues |-> <<>>, criteria_met |-> <<>>, criteria_not_met |-> <<>>, procedural_issues |-> <<>>, key_evidence |-> <<>>, risk_factors |-> <<>>, notes |-> ""]
DictNullId ==
    [case_id |-> JsonNull, visa_type |-> "O-1", case_type |-> "unknown", beneficiary_role |-> JsonNull, decision_outcome |-> "dismissed", decision_date |-> JsonNull, service_center |-> JsonNull, aao_docket_number |-> JsonNull, regulatory_citations |-> <<>>, issues |-> <<>>, criteria_met |-> <<>>, criteria_not_met |-> <<>>, procedural_issues |-> <<>>, key_evidence |-> <<>>, risk_factors |-> <<>>, notes |-> ""]
DictBadOutcome ==
    [case_id |-> "", visa_type |-> "O-1", case_type |-> "unknown", beneficiary_role |-> JsonNull, decision_outcome |-> "granted", decision_date |-> JsonNull, service_center |-> JsonNull, aao_docket_number |-> JsonNull, regulatory_citations |-> <<>>, issues |-> <<>>, criteria_met |-> <<>>, criteria_not_met |-> <<>>, procedural_issues |-> <<>>, key_evidence |-> <<>>, risk_factors |-> <<>>, notes |-> ""]
DictEmptyObject ==
    EmptyDict

(* ------------------------- json.loads / json.load --------------------- *)

Ok(v) == [ok |-> TRUE, val |-> v, exc |-> ""]
Raise(e) == [ok |-> FALSE, val |-> PyNone, exc |-> e]

\* json.loads on the model's answers: the parsed dict, or the exception raised.
json_loads(raw) ==
    CASE raw = RawFullA       -> Ok(DictFullA)
      [] raw = RawFullB       -> Ok(DictFullB)
      [] raw = RawUnknownId   -> Ok(DictUnknownId)
      [] raw = RawNullId      -> Ok(DictNullId)
      [] raw = RawBadOutcome  -> Ok(DictBadOutcome)
      [] raw = RawEmptyObject -> Ok(DictEmptyObject)
      [] raw = RawNone        -> Raise("TypeError")
      [] OTHER                -> Raise("JSONDecodeError")

\* The dicts json.loads can give for an answer of the model.
ParsedOutputs == {json_loads(r).val : r \in {x \in RawOutputs : json_loads(x).ok}}

\* The dicts save_cached_case is given: what json.loads gives for the model's
\* answers and, when the store is run on its own, a partial record with a
\* non-empty list.
DictPartial == [case_id |-> "ABC123", issues |-> <<"extraordinary ability", "O-1">>]
STORE_RECORDS == ParsedOutputs \cup {DictPartial}

(* ------------------------------ cache files --------------------------- *)

\* URLs that differ from the callers' URLs in letter case, query, scheme or a
\* trailing slash only.
URL_VARIANTS ==
    {"https://www.uscis.gov/A.pdf",
     "https://www.uscis.gov/a.pdf?v=2",
     "http://www.uscis.gov/a.pdf",
     "https://www.uscis.gov/a.pdf/"}

\* hashlib.sha256(url.encode("utf-8")).hexdigest(): the 64 hex characters.
hexdigest(u) ==
    CASE u = "https://www.uscis.gov/a.pdf" ->
         <<"3", "0", "0", "5", "4", "a", "8", "6", "b", "2", "3", "d", "9", "a", "d", "6", "1", "8", "7", "5", "8", "d", "a", "7", "4", "6", "d", "2", "1", "d", "5", "0",
         "b", "5", "8", "9", "e", "f", "8", "b", "2", "0", "a", "9", "f", "4", "5", "2", "a", "b", "b", "b", "9", "1", "d", "5", "c", "3", "d", "0", "f", "b", "2", "3">>
      [] u = "https://www.uscis.gov/b.pdf" ->
         <<"9", "2", "b", "6", "2", "5", "6", "1", "3", "1", "f", "d", "9", "5", "e", "b", "1", "3", "b", "c", "f", "d", "7", "b", "e", "9", "d", "f", "0", "0", "9", "8",
         "1", "1", "f", "2", "6", "5", "8", "7", "0", "e", "0", "5", "7", "7", "a", "1", "7", "2", "8", "c", "a", "4", "c", "d", "d", "b", "e", "9", "3", "f", "6", "3">>
      [] u = "https://www.uscis.gov/A.pdf" ->
         <<"c", "a", "6", "7", "2", "f", "f", "1", "3", "0", "3", "c", "5", "7", "9", "0", "e", "7", "7", "7", "a", "0", "2", "6", "0", "e", "1", "c", "1", "7", "6", "9",
         "0", "d", "f", "2", "f", "9", "b", "2", "e", "a", "f", "0", "c", "4", "3", "3", "1", "3", "b", "7", "d", "5", "8", "7", "2", "8", "1", "f", "5", "3", "f", "e">>
      [] u = "https://www.uscis.gov/a.pdf?v=2" ->
         <<"f", "d", "5", "e", "c", "e", "e", "2", "b", "5", "6", "7", "2", "5", "2", "4", "a", "3", "7", "f", "3", "6", "a", "f", "f", "6", "1", "1", "1", "a", "0", "e",
         "0", "e", "1", "9", "c", "7", "6", "c", "4", "1", "3", "2", "b", "a", "6", "6", "c", "b", "2", "6", "2", "c", "a", "f", "8", "f", "7", "a", "9", "a", "b", "1">>
      [] u = "http://www.uscis.gov/a.pdf" ->
         <<"0", "9", "b", "1", "4", "8", "b", "e", "4", "3", "9", "d", "5", "4", "4", "3", "f", "1", "b", "a", "a", "a", "c", "4", "9", "3", "b", "9", "d", "3", "6", "0",
         "2", "3", "4", "c", "7", "d", "c", "9", "3", "6", "7", "9", "e", "d", "6", "e", "0", "4", "2", "a", "f", "0", "8", "8", "6", "9", "3", "c", "8", "5", "4", "0">>
      [] u = "https://www.uscis.gov/a.pdf/" ->
         <<"f", "5", "c", "1", "4", "d", "7", "5", "2", "0", "1", "9", "f", "2", "6", "b", "6", "7", "7", "5", "5", "1", "2", "4", "d", "8", "4", "f", "a", "9", "b", "c",
         "a", "8", "5", "1", "4", "a", "8", "d", "2", "b", "a", "0", "0", "e", "a", "3", "a", "d", "e", "4", "b", "8", "b", "c", "2", "c", "4", "a", "c", "4", "7", "6">>

\* A key made from the host of the URL only: sha256("www.uscis.gov").hexdigest()[:16]
url_to_cache_key_of_host(u) ==
    SubSeq(<<"7", "a", "e", "a", "1", "e", "d", "3", "1", "5", "0", "3", "d", "7", "1", "2", "d", "7", "a", "1", "7", "6", "0", "d", "f", "9", "c", "e", "7", "b", "3", "f",
      "1", "b", "8", "1", "9", "3", "5", "3", "4", "7", "3", "0", "a", "6", "7", "a", "7", "0", "d", "e", "9", "d", "2", "b", "3", "d", "d", "e", "1", "1", "f", "a">>, 1, 16)

\* url_to_cache_key: h[:16], the first 16 hex characters of sha256(url).
url_to_cache_key(u) == SubSeq(hexdigest(u), 1, 16)

KEYS == {url_to_cache_key(u) : u \in URLS}

\* The members in the order json.dump writes them (the order of the prompt).
FIELD_ORDER ==
    <<"case_id", "visa_type", "case_type", "beneficiary_role", "decision_outcome",
      "decision_date", "service_center", "aao_docket_number", "regulatory_citations",
      "issues", "criteria_met", "criteria_not_met", "procedural_issues",
      "key_evidence", "risk_factors", "notes">>

\* The fields whose values are JSON arrays.
LIST_FIELDS ==
    {"regulatory_citations", "issues", "criteria_met", "criteria_not_met",
     "procedural_issues", "key_evidence", "risk_factors"}

\* An encoder that writes every falsy value, the empty string included, as null.
dump_member_empty_as_null(d, k) ==
    IF k \in LIST_FIELDS THEN <<k, "list", d[k]>>
    ELSE IF d[k] \in {JsonNull, ""} THEN <<k, "null", "">>
    ELSE <<k, "str", d[k]>>

\* One member of the object as json.dump writes it: "key": null, "key": "text"
\* or "key": [...], on a line of its own (indent=2).
dump_member(d, k) ==
    IF k \in LIST_FIELDS THEN <<k, "list", d[k]>>
    ELSE IF d[k] = JsonNull THEN <<k, "null", "">>
    ELSE <<k, "str", d[k]>>

\* json.dumps: the text of a value, line by line. None is written as null.
json_text(d) ==
    IF d = PyNone THEN << <<"null">> >>
    ELSE LET present == SelectSeq(FIELD_ORDER, LAMBDA k : k \in DOMAIN d) IN
         << <<"{">> >> \o [i \in 1..Len(present) |-> dump_member(d, present[i])]
                      \o << <<"}">> >>

\* The Python value of one member line.
load_member(m) == IF m[2] = "null" THEN JsonNull ELSE m[3]

\* The JSON decoder on a text: null gives None, an object gives a dict, and
\* anything else (an empty text included) raises.
json_parse(text) ==
    IF text = << <<"null">> >> THEN Ok(PyNone)
    ELSE IF /\ Len(text) >= 2
            /\ text[1] = <<"{">>
            /\ text[Len(text)] = <<"}">>
            /\ \A i \in 2..(Len(text) - 1) : Len(text[i]) = 3
         THEN LET body == SubSeq(text, 2, Len(text) - 1) IN
              Ok([k \in {body[i][1] : i \in DOMAIN body} |->
                    load_member(body[CHOOSE i \in DOMAIN body : body[i][1] = k])])
         ELSE Raise("JSONDecodeError")

RECURSIVE sum_len(_)
\* The characters of the items of a list written one per line at indent 4:
\* four spaces, the quoted item and ",\n" (which the last item does not have).
sum_len(items) ==
    IF Len(items) = 0 THEN 0 ELSE 4 + (Len(Head(items)) + 2) + 2 + sum_len(Tail(items))

\* The characters of one member line without its line end: two spaces, the
\* quoted key, ": ", and null, the quoted text, [] or the list over several
\* lines closed by "  ]".
member_size(m) ==
    2 + (Len(m[1]) + 2) + 2
      + (IF m[2] = "null" THEN 4
         ELSE IF m[2] = "str" THEN Len(m[3]) + 2
         ELSE IF Len(m[3]) = 0 THEN 2
         ELSE 2 + (sum_len(m[3]) - 2) + 4)

RECURSIVE sum_members(_)
sum_members(ms) ==
    IF Len(ms) = 0 THEN 0 ELSE member_size(Head(ms)) + 2 + sum_members(Tail(ms))

\* How many bytes json.dump(data, f, indent=2) writes for a text: null, {} or
\* "{\n", the member lines separated by ",\n", "\n}" (the texts are ASCII).
text_size(t) ==
    IF Len(t) = 0 THEN 0
    ELSE IF t = << <<"null">> >> THEN 4
    ELSE IF Len(t) = 2 THEN 2
    ELSE 2 + (sum_members(SubSeq(t, 2, Len(t) - 1)) - 2) + 2

\* A file of cases/ is held as what it is on disk (absent, empty, not JSON,
\* JSON), how many bytes long it is and, for a JSON file, the value its text
\* decodes to.

\* cases/<key>.json does not exist.
NoFile == [exists |-> FALSE, kind |-> "none", val |-> PyNone, size |-> 0]

\* The file right after open(json_path, "w"): truncated, nothing flushed yet.
TruncatedFile == [exists |-> TRUE, kind |-> "empty", val |-> PyNone, size |-> 0]

\* A file of n bytes that decode as text which is not JSON.
garbage_file(n) == [exists |-> TRUE, kind |-> "garbage", val |-> PyNone, size |-> n]

\* A file whose content was replaced by the text: not json
GarbageFile == garbage_file(Len("not json"))

\* A file whose content was replaced by bytes that are not UTF-8: ff fe 00 and
\* the seven bytes of "garbage".
BinaryFile == [exists |-> TRUE, kind |-> "binary", val |-> PyNone, size |-> 3 + Len("garbage")]

\* The file holding the text t.
file_of(t) ==
    LET r == json_parse(t) IN
    IF r.ok THEN [exists |-> TRUE, kind |-> "json", val |-> r.val, size |-> text_size(t)]
    ELSE IF Len(t) = 0 THEN TruncatedFile ELSE garbage_file(text_size(t))

\* The files json.dump leaves for the values of the model, worked out once.
DUMPED == [d \in STORE_RECORDS \cup {PyNone} |-> file_of(json_text(d))]

\* The file json.dump(data, f, indent=2) and the close leave when nothing else
\* has written the file since it was opened.
json_dump(d) == DUMPED[d]

\* What the file holds after a descriptor standing at offset 0 has written the
\* whole text of `new` and was closed, the file holding `old` by then: the
\* write replaces the first bytes and cuts nothing off, so a longer old content
\* keeps its tail, and the new text followed by that tail is not JSON.
write_from_start(old, new) ==
    IF old.size > new.size THEN garbage_file(old.size) ELSE new

\* A json.load wrapped in an except clause that answers None for a bad file.
json_load_lenient(file) ==
    IF file.kind = "json" THEN Ok(file.val) ELSE Ok(PyNone)

\* json.load(f) on the content of a file: f.read() decodes the bytes (UTF-8)
\* and raises on bytes that are not text; then the decoder gives its value for
\* a JSON text, its exception for an empty text or one that is not JSON.
json_load(file) ==
    IF file.kind = "binary" THEN Raise("UnicodeDecodeError")
    ELSE IF file.kind = "json" THEN Ok(file.val)
    ELSE json_parse(<<>>)

\* An existence test on a path that is never written (the key without cases/).
path_exists_wrong_dir(file) == FALSE

\* os.path.exists(json_path)
path_exists(file) == file.exists

(* ------------------------------ the fetcher --------------------------- *)

PdfA == "%PDF-A"
PdfB == "%PDF-B"
NotAPdf == "<html>"
DOCS == {PdfA, PdfB, NotAPdf}
NoBytes == ""

\* Content-Type values, character by character.
CT_PDF == <<"a", "p", "p", "l", "i", "c", "a", "t", "i", "o", "n", "/", "p", "d", "f">>
CT_PDF_UPPER == <<"A", "p", "p", "l", "i", "c", "a", "t", "i", "o", "n", "/", "P", "D", "F">>
CT_XPDF_MIXED == <<"a", "p", "p", "l", "i", "c", "a", "t", "i", "o", "n", "/", "x", "-", "P", "d", "F">>
CT_HTML == <<"t", "e", "x", "t", "/", "h", "t", "m", "l">>
CT_OCTET == <<"a", "p", "p", "l", "i", "c", "a", "t", "i", "o", "n", "/", "o", "c", "t", "e", "t", "-", "s", "t", "r", "e", "a", "m">>

\* A response without a Content-Type header.
NoHeader == <<"<missing>">>
CONTENT_TYPES == {CT_PDF, CT_PDF_UPPER, CT_XPDF_MIXED, CT_HTML, CT_OCTET, NoHeader}

\* The status codes of the responses: a success, a 3xx the redirect handling
\* hands back (no Location to follow), a client error and a server error.
STATUSES == {200, 300, 404, 500}

\* How the read of the body ends (stream=True: the body is not read by
\* requests.get but by resp.content): all of it arrives, the connection is
\* reset on the way, or the read times out.
BODY_READS == {"ok", "reset", "timeout"}

\* What requests.get can come back with, and what the server then does with
\* the body.
RESPONSES ==
    [transport : {"Timeout", "ConnectionError"}, status : {0},
     ctype : {NoHeader}, body : {NoBytes}, read : {"ok"}]
    \cup
    [transport : {"ok"}, status : STATUSES, ctype : CONTENT_TYPES, body : DOCS,
     read : BODY_READS]

\* resp.headers.get("Content-Type", "")
header_get(h) == IF h = NoHeader THEN <<>> ELSE h

UPPER_CASE ==
    <<"A", "B", "C", "D", "E", "F", "G", "H", "I", "J", "K", "L", "M", "N", "O", "P", "Q", "R", "S", "T", "U", "V", "W", "X", "Y", "Z">>
LOWER_CASE ==
    <<"a", "b", "c", "d", "e", "f", "g", "h", "i", "j", "k", "l", "m", "n", "o", "p", "q", "r", "s", "t", "u", "v", "w", "x", "y", "z">>

\* The upper-case letters, and the place of each in the alphabet.
UPPER_SET == {UPPER_CASE[j] : j \in 1..Len(UPPER_CASE)}
INDEX_OF == [c \in UPPER_SET |-> CHOOSE j \in 1..Len(UPPER_CASE) : UPPER_CASE[j] = c]

\* str.lower, character by character.
lower(s) ==
    [i \in 1..Len(s) |-> IF s[i] \in UPPER_SET THEN LOWER_CASE[INDEX_OF[s[i]]] ELSE s[i]]

\* "pdf" in s
contains_pdf(s) ==
    \E i \in 1..(Len(s) - 2) : SubSeq(s, i, i + 2) = <<"p", "d", "f">>

\* The text of the ValueError: the fixed sentence and the header value as received.
value_error_message(content_type) ==
    <<"URL does not appear to be a PDF. Content-Type: ", content_type>>

\* resp.content: the body, or the exception of a read that breaks off.
content(resp) ==
    IF resp.read = "reset" THEN Raise("ChunkedEncodingError")
    ELSE IF resp.read = "timeout" THEN Raise("ConnectionError")
    ELSE Ok(resp.body)

\* uscis_fetcher.download_pdf_bytes, given what requests.get comes back with.
\* raise_for_status raises for a status from 400 to 599 only; the body is read
\* last, after the status and the Content-Type have been looked at.
download_pdf_bytes(resp) ==
    IF resp.transport # "ok" THEN Raise(resp.transport)
    ELSE IF resp.status >= 400 /\ resp.status < 600 THEN Raise("HTTPError")
    ELSE IF ~contains_pdf(lower(header_get(resp.ctype)))
         THEN [ok |-> FALSE, val |-> PyNone, exc |-> "ValueError",
               msg |-> value_error_message(header_get(resp.ctype))]
    ELSE content(resp)

\* Every way download_pdf_bytes can end: the bytes returned or the exception.
FETCH_OUTCOMES == {download_pdf_bytes(resp) : resp \in RESPONSES}

(* --------------------------- text extraction -------------------------- *)

NoText == <<>>

\* pdf_reader.extract_text_from_pdf_bytes: fitz raises on bytes that are no PDF.
extract_text_from_pdf_bytes(b) ==
    CASE b = PdfA -> [ok |-> TRUE, val |-> <<"A", "p", "p", "r">>, exc |-> ""]
      [] b = PdfB -> [ok |-> TRUE, val |-> <<"D", "e", "n">>, exc |-> ""]
      [] OTHER    -> [ok |-> FALSE, val |-> NoText, exc |-> "FileDataError"]

\* The leading-character budget of the prompt.
WINDOW == 12000

\* A slice that keeps the end of the text: full_text[-12000:]
truncate_tail(t) == SubSeq(t, IF Len(t) < WINDOW THEN 1 ELSE Len(t) - WINDOW + 1, Len(t))

\* full_text[:12000]
truncate(t) == SubSeq(t, 1, IF Len(t) < WINDOW THEN Len(t) ELSE WINDOW)

\* system_message
system_message ==
    "You are an expert U.S. immigration law assistant. Given a USCIS or AAO decision, you extract key case facts into a strict JSON object. You NEVER guess or infer information. You ONLY extract information explicitly stated in the text."

\* The user message up to the text chunk: the instructions, the rules, the 16
\* field lines and "Decision text:".
USER_MESSAGE_HEAD ==
    "\nRead the following USCIS/AAO decision text and extract the key information into a JSON object.\n\nReturn ONLY valid JSON. Do not include any explanation or commentary, just the JSON.\n\nIMPORTANT RULES (DO NOT BREAK THESE):\n- NEVER guess, infer, approximate, assume, or fabricate any information.\n- ONLY include values that are explicitly stated in the text.\n- If a value is not explicitly stated, set to null (for dates/numbers) or \"unknown\" (for strings).\n- If you are unsure, return null/unknown.\n- If the field cannot be copied VERBATIM from the text, return null/unknown.\n\nThe JSON object MUST have exactly these fields:\n\n- case_id: string (ONLY if the decision text explicitly contains a case number, AAO reference, or receipt number. If not explicitly present, set to \"unknown\". Do NOT infer or guess.)\n- visa_type: string or null (examples: \"O-1\", \"H-1B\", \"EB-2\", \"unknown\")\n- case_type: string (examples: \"initial\", \"appeal\", \"motion\", \"unknown\")\n- beneficiary_role: string or null\n- decision_outcome: string (one of: \"approved\", \"denied\", \"dismissed\", \"sustained\", \"withdrawn\", \"remanded\", \"unknown\")\n- decision_date: string or null (ONLY if explicitly shown. Use ISO format \"YYYY-MM-DD\". Do NOT infer or guess ANY dates.)\n- service_center: string or null (ONLY if explicitly shown. Do NOT infer, even if hints exist.)\n- aao_docket_number: string or null (ONLY if explicitly present. Never guess.)\n- regulatory_citations: array of strings (ONLY citations explicitly shown)\n- issues: array of strings\n- criteria_met: array of strings\n- criteria_not_met: array of strings\n- procedural_issues: array of strings\n- key_evidence: array of strings\n- risk_factors: array of strings\n- notes: string\n\nIf a field is not explicitly stated in the text, set it to null or \"unknown\" as appropriate.\n\nDecision text:\n"

\* user_message: the f-string's text before {text_chunk}, the chunk, and the
\* text after it.
user_message(chunk) == <<USER_MESSAGE_HEAD, chunk, "\n">>

\* messages=[...] of client.chat.completions.create
messages(chunk) ==
    <<[role |-> "system", content |-> system_message],
      [role |-> "user", content |-> user_message(chunk)]>>

(* --------------------------- the model backend ------------------------ *)

\* client.chat.completions.create either raises or returns a message content.
MODEL_OUTCOMES ==
    {[ok |-> TRUE, val |-> r, exc |-> ""] : r \in RawOutputs}
    \cup {[ok |-> FALSE, val |-> RawNone, exc |-> "APIError"]}

(* -------------------------------- state ------------------------------- *)

VARIABLES
    cache,        \* the cases/ directory: cache key -> file
    pc,           \* where each caller's process_uscis_case call stands
    url,          \* the url argument of the call
    cached,       \* local: what get_cached_case returned
    pdf_bytes,    \* local
    text_chunk,   \* local: full_text[:12000]
    raw_content,  \* local: the model's answer
    data,         \* local: the parsed answer
    ret,          \* the value the call returned (PyNone until it returns)
    err,          \* the exception the call raised
    nfetch,       \* download_pdf_bytes calls made by this call
    nmodel,       \* chat.completions.create calls made by this call
    nput,         \* save_cached_case calls made by this call
    seen,         \* the file this call's json.load read
    ncalls,       \* calls started so far
    fetchCount,   \* per URL: downloads over all calls
    modelCount,   \* per URL: model calls over all calls
    putCount,     \* per key: save_cached_case calls over all calls
    okSnap,       \* per URL: the first call that succeeded on a miss
    afterOK,      \* per caller: the call started after such a success
    cache0,       \* the cache when the latest call started
    lastCaller,   \* the caller of the latest call
    probe,        \* the latest run of one function on its own, or the latest
                  \* page of the web handler: argument and result
    request,      \* per caller: the web request it is handling
    lastSaved,    \* per URL: the dict the latest json.dump of a save_cached_case
                  \* called on its own wrote
    overlapped    \* per caller: another call on the same URL was under way
                  \* during its call

locals == <<cached, pdf_bytes, text_chunk, raw_content, data>>
outcome == <<ret, err>>
counters == <<nfetch, nmodel, nput>>
history == <<seen, ncalls>>
\* What an observer of non-overlapping calls records (SeqSpec only).
watched == <<fetchCount, modelCount, putCount, okSnap, afterOK, cache0, lastCaller>>
\* All that is recorded about the program from outside it.
\* What the runs of single functions and the web handler keep.
aside == <<probe, request, lastSaved, overlapped>>
observed == <<watched, aside>>
vars == <<cache, pc, url, locals, outcome, counters, history, observed>>

NoErr == [exc |-> "", at |-> "", raw |-> RawNone]
NoProbe == [fn |-> "none", arg |-> <<>>, out |-> <<>>]
NoField == <<"<no url field>">>
NoRequest == [method |-> "none", form |-> NoField]
NoSnap == [set |-> FALSE, rec |-> PyNone, nf |-> 0, nm |-> 0, cf |-> 0, cm |-> 0]

TERMINAL == {"CACHE_HIT", "DONE", "FAILED"}
IDLE == {"UNSTARTED"} \cup TERMINAL
InFlight(p) == pc[p] \notin IDLE
key(p) == url_to_cache_key(url[p])

\* What cases/ may hold for a URL as the process starts (os.makedirs with
\* exist_ok=True keeps what is there): nothing, the record of an earlier run,
\* the empty file of a run that died between open and json.dump, or a file
\* that is not JSON, as text or as bytes.
LEFTOVERS == {NoFile, json_dump(DictFullA), TruncatedFile, GarbageFile, BinaryFile}

\* The URL whose file may be left over from before the process started.
OLD_URL == "https://www.uscis.gov/a.pdf"

Init ==
    /\ \E f \in LEFTOVERS :
         cache = [k \in KEYS |-> IF k = url_to_cache_key(OLD_URL) THEN f ELSE NoFile]
    /\ pc = [p \in Callers |-> "UNSTARTED"]
    /\ url = [p \in Callers |-> CHOOSE u \in URLS : TRUE]
    /\ cached = [p \in Callers |-> PyNone]
    /\ pdf_bytes = [p \in Callers |-> NoBytes]
    /\ text_chunk = [p \in Callers |-> NoText]
    /\ raw_content = [p \in Callers |-> RawNone]
    /\ data = [p \in Callers |-> PyNone]
    /\ ret = [p \in Callers |-> PyNone]
    /\ err = [p \in Callers |-> NoErr]
    /\ nfetch = [p \in Callers |-> 0]
    /\ nmodel = [p \in Callers |-> 0]
    /\ nput = [p \in Callers |-> 0]
    /\ seen = [p \in Callers |-> NoFile]
    /\ ncalls = 0
    /\ fetchCount = [u \in URLS |-> 0]
    /\ modelCount = [u \in URLS |-> 0]
    /\ putCount = [k \in KEYS |-> 0]
    /\ okSnap = [u \in URLS |-> NoSnap]
    /\ afterOK = [p \in Callers |-> FALSE]
    /\ cache0 = cache
    /\ lastCaller = CHOOSE p \in Callers : TRUE
    /\ probe = NoProbe
    /\ request = [p \in Callers |-> NoRequest]
    /\ lastSaved = [u \in URLS |-> PyNone]
    /\ overlapped = [p \in Callers |-> FALSE]

(* ------------------------- process_uscis_case ------------------------- *)

\* The exception leaves process_uscis_case: the call is over, its locals gone.
Fail(p, e, at, raw) ==
    /\ pc' = [pc EXCEPT ![p] = "FAILED"]
    /\ err' = [err EXCEPT ![p] = [exc |-> e, at |-> at, raw |-> raw]]
    /\ cached' = [cached EXCEPT ![p] = PyNone]
    /\ pdf_bytes' = [pdf_bytes EXCEPT ![p] = NoBytes]
    /\ text_chunk' = [text_chunk EXCEPT ![p] = NoText]
    /\ raw_content' = [raw_content EXCEPT ![p] = RawNone]
    /\ data' = [data EXCEPT ![p] = PyNone]
    /\ ret' = ret

\* A caller calls process_uscis_case(u).
Call(p, u) ==
    /\ pc[p] \in IDLE
    /\ ncalls < MaxCalls
    /\ ncalls' = ncalls + 1
    /\ pc' = [pc EXCEPT ![p] = "CACHE_LOOKUP"]
    /\ url' = [url EXCEPT ![p] = u]
    /\ cached' = [cached EXCEPT ![p] = PyNone]
    /\ pdf_bytes' = [pdf_bytes EXCEPT ![p] = NoBytes]
    /\ text_chunk' = [text_chunk EXCEPT ![p] = NoText]
    /\ raw_content' = [raw_content EXCEPT ![p] = RawNone]
    /\ data' = [data EXCEPT ![p] = PyNone]
    /\ ret' = [ret EXCEPT ![p] = PyNone]
    /\ err' = [err EXCEPT ![p] = NoErr]
    /\ nfetch' = [nfetch EXCEPT ![p] = 0]
    /\ nmodel' = [nmodel EXCEPT ![p] = 0]
    /\ nput' = [nput EXCEPT ![p] = 0]
    /\ seen' = [seen EXCEPT ![p] = NoFile]
    /\ UNCHANGED cache

\* get_cached_case: os.path.exists(json_path)
CacheExists(p) ==
    /\ pc[p] = "CACHE_LOOKUP"
    /\ IF path_exists(cache[key(p)])
       THEN /\ pc' = [pc EXCEPT ![p] = "CACHE_LOAD"]
            /\ UNCHANGED cached
       ELSE /\ pc' = [pc EXCEPT ![p] = "CACHE_CHECKED"]
            /\ cached' = [cached EXCEPT ![p] = PyNone]
    /\ UNCHANGED <<cache, url, pdf_bytes, text_chunk, raw_content, data, outcome,
                   counters, history>>

\* get_cached_case: open(json_path, "r"), json.load(f)
CacheLoad(p) ==
    /\ pc[p] = "CACHE_LOAD"
    /\ seen' = [seen EXCEPT ![p] = cache[key(p)]]
    /\ LET r == json_load(cache[key(p)]) IN
       IF r.ok
       THEN /\ pc' = [pc EXCEPT ![p] = "CACHE_CHECKED"]
            /\ cached' = [cached EXCEPT ![p] = r.val]
            /\ UNCHANGED <<pdf_bytes, text_chunk, raw_content, data, outcome>>
       ELSE Fail(p, r.exc, "get_cached_case", RawNone)
    /\ UNCHANGED <<cache, url, counters, ncalls>>

\* A process_uscis_case that looks the cache up and then ignores the answer.
CacheBranchAlwaysMiss(p) ==
    /\ pc[p] = "CACHE_CHECKED"
    /\ pc' = [pc EXCEPT ![p] = "FETCHING"]
    /\ UNCHANGED <<cache, url, locals, outcome, counters, history>>

\* process_uscis_case: if cached is not None: return cached
CacheBranch(p) ==
    /\ pc[p] = "CACHE_CHECKED"
    /\ IF cached[p] # PyNone
       THEN /\ pc' = [pc EXCEPT ![p] = "CACHE_HIT"]
            /\ ret' = [ret EXCEPT ![p] = cached[p]]
            /\ cached' = [cached EXCEPT ![p] = PyNone]
       ELSE /\ pc' = [pc EXCEPT ![p] = "FETCHING"]
            /\ UNCHANGED <<ret, cached>>
    /\ UNCHANGED <<cache, url, pdf_bytes, text_chunk, raw_content, data, err,
                   counters, history>>

\* A pipeline that opens the cache file for writing before it downloads.
FetchOpensFirst(p) ==
    /\ pc[p] = "FETCHING"
    /\ nfetch' = [nfetch EXCEPT ![p] = @ + 1]
    /\ cache' = [cache EXCEPT ![key(p)] = TruncatedFile]
    /\ \E r \in FETCH_OUTCOMES :
         IF r.ok
         THEN /\ pc' = [pc EXCEPT ![p] = "EXTRACTING_TEXT"]
              /\ pdf_bytes' = [pdf_bytes EXCEPT ![p] = r.val]
              /\ UNCHANGED <<cached, text_chunk, raw_content, data, outcome>>
         ELSE Fail(p, r.exc, "download_pdf_bytes", RawNone)
    /\ UNCHANGED <<url, nmodel, nput, history>>

\* A pipeline that downloads again when the download fails.
FetchRetries(p) ==
    /\ pc[p] = "FETCHING"
    /\ nfetch' = [nfetch EXCEPT ![p] = @ + 1]
    /\ \E r \in FETCH_OUTCOMES :
         IF r.ok
         THEN /\ pc' = [pc EXCEPT ![p] = "EXTRACTING_TEXT"]
              /\ pdf_bytes' = [pdf_bytes EXCEPT ![p] = r.val]
         ELSE UNCHANGED <<pc, pdf_bytes>>
    /\ UNCHANGED <<cache, url, cached, text_chunk, raw_content, data, outcome,
                   nmodel, nput, history>>

\* pdf_bytes = download_pdf_bytes(url)
Fetch(p) ==
    /\ pc[p] = "FETCHING"
    /\ nfetch' = [nfetch EXCEPT ![p] = @ + 1]
    /\ \E r \in FETCH_OUTCOMES :
         IF r.ok
         THEN /\ pc' = [pc EXCEPT ![p] = "EXTRACTING_TEXT"]
              /\ pdf_bytes' = [pdf_bytes EXCEPT ![p] = r.val]
              /\ UNCHANGED <<cached, text_chunk, raw_content, data, outcome>>
         ELSE Fail(p, r.exc, "download_pdf_bytes", RawNone)
    /\ UNCHANGED <<cache, url, nmodel, nput, history>>

\* full_text = extract_text_from_pdf_bytes(pdf_bytes); text_chunk = full_text[:12000]
ExtractText(p) ==
    /\ pc[p] = "EXTRACTING_TEXT"
    /\ LET r == extract_text_from_pdf_bytes(pdf_bytes[p]) IN
       IF r.ok
       THEN /\ pc' = [pc EXCEPT ![p] = "MODEL_CALLING"]
            /\ text_chunk' = [text_chunk EXCEPT ![p] = truncate(r.val)]
            /\ UNCHANGED <<cached, pdf_bytes, raw_content, data, outcome>>
       ELSE Fail(p, r.exc, "extract_text_from_pdf_bytes", RawNone)
    /\ UNCHANGED <<cache, url, counters, history>>

\* response = client.chat.completions.create(...); raw_content = ...message.content
ModelCall(p) ==
    /\ pc[p] = "MODEL_CALLING"
    /\ nmodel' = [nmodel EXCEPT ![p] = @ + 1]
    /\ \E r \in MODEL_OUTCOMES :
         IF r.ok
         THEN /\ pc' = [pc EXCEPT ![p] = "PARSING"]
              /\ raw_content' = [raw_content EXCEPT ![p] = r.val]
              /\ UNCHANGED <<cached, pdf_bytes, text_chunk, data, outcome>>
         ELSE Fail(p, r.exc, "chat.completions.create", RawNone)
    /\ UNCHANGED <<cache, url, nfetch, nput, history>>

\* A parse step whose except clause swallows the error and saves an empty dict.
ParseSwallowsError(p) ==
    /\ pc[p] = "PARSING"
    /\ LET r == json_loads(raw_content[p]) IN
       /\ pc' = [pc EXCEPT ![p] = "PERSISTING"]
       /\ data' = [data EXCEPT ![p] = IF r.ok THEN r.val ELSE EmptyDict]
    /\ UNCHANGED <<cache, url, cached, pdf_bytes, text_chunk, raw_content, outcome,
                   counters, history>>

\* data = json.loads(raw_content), the JSONDecodeError printed and re-raised
Parse(p) ==
    /\ pc[p] = "PARSING"
    /\ LET r == json_loads(raw_content[p]) IN
       IF r.ok
       THEN /\ pc' = [pc EXCEPT ![p] = "PERSISTING"]
            /\ data' = [data EXCEPT ![p] = r.val]
            /\ UNCHANGED <<cached, pdf_bytes, text_chunk, raw_content, outcome>>
       ELSE Fail(p, r.exc, "json.loads", raw_content[p])
    /\ UNCHANGED <<cache, url, counters, history>>

\* A save_cached_case that empties every file of cases/ before it writes its own.
OpenForWriteAllFiles(p) ==
    /\ pc[p] = "PERSISTING"
    /\ pc' = [pc EXCEPT ![p] = "WRITING"]
    /\ cache' = [k \in KEYS |-> TruncatedFile]
    /\ nput' = [nput EXCEPT ![p] = @ + 1]
    /\ UNCHANGED <<url, locals, outcome, nfetch, nmodel, history>>

\* save_cached_case: open(json_path, "w") creates or truncates the file
OpenForWrite(p) ==
    /\ pc[p] = "PERSISTING"
    /\ pc' = [pc EXCEPT ![p] = "WRITING"]
    /\ cache' = [cache EXCEPT ![key(p)] = TruncatedFile]
    /\ nput' = [nput EXCEPT ![p] = @ + 1]
    /\ UNCHANGED <<url, locals, outcome, nfetch, nmodel, history>>

\* save_cached_case: json.dump(data, f, indent=2) and the close of the file at
\* the end of the with block, which is when the text reaches the file. The
\* descriptor still stands at offset 0, whatever was written to the file since
\* this call opened it.
Dump(p) ==
    /\ pc[p] = "WRITING"
    /\ pc' = [pc EXCEPT ![p] = "SAVED"]
    /\ cache' = [cache EXCEPT ![key(p)] = write_from_start(@, json_dump(data[p]))]
    /\ UNCHANGED <<url, locals, outcome, counters, history>>

\* process_uscis_case: back from save_cached_case, the print, return data
ReturnData(p) ==
    /\ pc[p] = "SAVED"
    /\ pc' = [pc EXCEPT ![p] = "DONE"]
    /\ ret' = [ret EXCEPT ![p] = data[p]]
    /\ cached' = [cached EXCEPT ![p] = PyNone]
    /\ pdf_bytes' = [pdf_bytes EXCEPT ![p] = NoBytes]
    /\ text_chunk' = [text_chunk EXCEPT ![p] = NoText]
    /\ data' = [data EXCEPT ![p] = PyNone]
    /\ UNCHANGED <<cache, url, raw_content, err, counters, history>>

\* Someone replaces the content of an existing cache file by something that is
\* not JSON: other text, or bytes that are no text.
Tamper(k) ==
    /\ cache[k].exists
    /\ \E g \in {GarbageFile, BinaryFile} :
         /\ cache[k] # g
         /\ cache' = [cache EXCEPT ![k] = g]
    /\ UNCHANGED <<pc, url, locals, outcome, counters, history, observed>>

Step(p) ==
    \/ CacheExists(p)
    \/ CacheLoad(p)
    \/ CacheBranch(p)
    \/ Fetch(p)
    \/ ExtractText(p)
    \/ ModelCall(p)
    \/ Parse(p)
    \/ OpenForWrite(p)
    \/ Dump(p)
    \/ ReturnData(p)

\* Callers overlap freely, and cache files may be replaced by hand.
Next ==
    \/ \E p \in Callers, u \in URLS : Call(p, u) /\ UNCHANGED observed
    \/ \E p \in Callers : CacheExists(p) /\ UNCHANGED observed
    \/ \E p \in Callers : CacheLoad(p) /\ UNCHANGED observed
    \/ \E p \in Callers : CacheBranch(p) /\ UNCHANGED observed
    \/ \E p \in Callers : Fetch(p) /\ UNCHANGED observed
    \/ \E p \in Callers : ExtractText(p) /\ UNCHANGED observed
    \/ \E p \in Callers : ModelCall(p) /\ UNCHANGED observed
    \/ \E p \in Callers : Parse(p) /\ UNCHANGED observed
    \/ \E p \in Callers : OpenForWrite(p) /\ UNCHANGED observed
    \/ \E p \in Callers : Dump(p) /\ UNCHANGED observed
    \/ \E p \in Callers : ReturnData(p) /\ UNCHANGED observed
    \/ \E k \in KEYS : Tamper(k)

Spec == Init /\ [][Next]_vars

(* ------------------------- non-overlapping calls ---------------------- *)

\* One call at a time: a call starts only when no other call is running. The
\* observer notes the cache as the call starts.
SeqCall(p, u) ==
    /\ \A q \in Callers : ~InFlight(q)
    /\ Call(p, u)
    /\ afterOK' = [afterOK EXCEPT ![p] = okSnap[u].set]
    /\ cache0' = cache
    /\ lastCaller' = p
    /\ UNCHANGED <<fetchCount, modelCount, putCount, okSnap, aside>>

\* The observer counts the download.
SeqFetch(p) ==
    /\ Fetch(p)
    /\ fetchCount' = [fetchCount EXCEPT ![url[p]] = @ + 1]
    /\ UNCHANGED <<modelCount, putCount, okSnap, afterOK, cache0, lastCaller, aside>>

\* The observer counts the model call.
SeqModelCall(p) ==
    /\ ModelCall(p)
    /\ modelCount' = [modelCount EXCEPT ![url[p]] = @ + 1]
    /\ UNCHANGED <<fetchCount, putCount, okSnap, afterOK, cache0, lastCaller, aside>>

\* The observer counts the save_cached_case call.
SeqOpenForWrite(p) ==
    /\ OpenForWrite(p)
    /\ putCount' = [putCount EXCEPT ![key(p)] = @ + 1]
    /\ UNCHANGED <<fetchCount, modelCount, okSnap, afterOK, cache0, lastCaller, aside>>

\* The observer notes the first call on a URL that ran the pipeline to the end.
SeqReturnData(p) ==
    /\ ReturnData(p)
    /\ okSnap' = IF okSnap[url[p]].set THEN okSnap
                 ELSE [okSnap EXCEPT ![url[p]] =
                         [set |-> TRUE, rec |-> data[p],
                          nf |-> fetchCount[url[p]], nm |-> modelCount[url[p]],
                          cf |-> nfetch[p], cm |-> nmodel[p]]]
    /\ UNCHANGED <<fetchCount, modelCount, putCount, afterOK, cache0, lastCaller, aside>>

SeqNext ==
    \/ \E p \in Callers, u \in URLS : SeqCall(p, u)
    \/ \E p \in Callers : CacheExists(p) /\ UNCHANGED observed
    \/ \E p \in Callers : CacheLoad(p) /\ UNCHANGED observed
    \/ \E p \in Callers : CacheBranch(p) /\ UNCHANGED observed
    \/ \E p \in Callers : SeqFetch(p)
    \/ \E p \in Callers : ExtractText(p) /\ UNCHANGED observed
    \/ \E p \in Callers : SeqModelCall(p)
    \/ \E p \in Callers : Parse(p) /\ UNCHANGED observed
    \/ \E p \in Callers : SeqOpenForWrite(p)
    \/ \E p \in Callers : Dump(p) /\ UNCHANGED observed
    \/ \E p \in Callers : SeqReturnData(p)

SeqSpec == Init /\ [][SeqNext]_vars

(* ---------------------------- overlapping calls ----------------------- *)

\* A call starts while others run. The observer notes, for the new call and for
\* every call under way on the same URL, that the two overlap.
OverlapCall(p, u) ==
    /\ Call(p, u)
    /\ overlapped' =
         [q \in Callers |->
            IF q = p THEN \E r \in Callers \ {p} : InFlight(r) /\ url[r] = u
            ELSE overlapped[q] \/ (InFlight(q) /\ url[q] = u)]
    /\ UNCHANGED <<watched, probe, request, lastSaved>>

\* Callers overlap freely; nothing but the calls touches cases/.
OverlapNext ==
    \/ \E p \in Callers, u \in URLS : OverlapCall(p, u)
    \/ \E p \in Callers : CacheExists(p) /\ UNCHANGED observed
    \/ \E p \in Callers : CacheLoad(p) /\ UNCHANGED observed
    \/ \E p \in Callers : CacheBranch(p) /\ UNCHANGED observed
    \/ \E p \in Callers : Fetch(p) /\ UNCHANGED observed
    \/ \E p \in Callers : ExtractText(p) /\ UNCHANGED observed
    \/ \E p \in Callers : ModelCall(p) /\ UNCHANGED observed
    \/ \E p \in Callers : Parse(p) /\ UNCHANGED observed
    \/ \E p \in Callers : OpenForWrite(p) /\ UNCHANGED observed
    \/ \E p \in Callers : Dump(p) /\ UNCHANGED observed
    \/ \E p \in Callers : ReturnData(p) /\ UNCHANGED observed

OverlapSpec == Init /\ [][OverlapNext]_vars

\* Every running call takes its next step: each collaborator returns or fails,
\* and the file system takes the write.
FairOverlapSpec == OverlapSpec /\ \A p \in Callers : WF_vars(Step(p) /\ UNCHANGED observed)

(* ---------------------- the functions on their own ------------------- *)

\* The pipeline's state, which a run of a function that does not touch cases/
\* leaves alone.
pipeline == <<cache, pc, url, locals, outcome, counters, history, watched>>

\* download_pdf_bytes on each response requests.get can come back with.
RunFetcher ==
    /\ \E resp \in RESPONSES :
         probe' = [fn |-> "download_pdf_bytes", arg |-> resp,
                   out |-> download_pdf_bytes(resp)]
    /\ UNCHANGED <<pipeline, request, lastSaved, overlapped>>

\* Extracted texts around the character budget, characters as numbers: every
\* character is its own position in the text, or the same character throughout.
TEXT_LENGTHS == (0..MaxExtra) \cup ((WINDOW - MaxExtra)..(WINDOW + MaxExtra))
FULL_TEXTS ==
    {[i \in 1..n |-> i] : n \in TEXT_LENGTHS} \cup {[i \in 1..n |-> 0] : n \in TEXT_LENGTHS}

\* text_chunk = full_text[:12000] and the messages built from it.
RunPrompt ==
    /\ \E full_text \in FULL_TEXTS :
         probe' = [fn |-> "messages", arg |-> full_text,
                   out |-> messages(truncate(full_text))]
    /\ UNCHANGED <<pipeline, request, lastSaved, overlapped>>

\* url_to_cache_key on the callers' URLs and their variants.
RunKey ==
    /\ \E u \in URLS \cup URL_VARIANTS :
         probe' = [fn |-> "url_to_cache_key", arg |-> u, out |-> url_to_cache_key(u)]
    /\ UNCHANGED <<pipeline, request, lastSaved, overlapped>>

\* The characters str.strip removes (those for which str.isspace is true): the
\* 29 code points, each as one piece; the ones TLA+ has no escape for are
\* written by their code point.
WHITESPACE ==
    {"\t", "\n", "<U+000B>", "\f", "\r", "<U+001C>", "<U+001D>", "<U+001E>", "<U+001F>",
     " ", "<U+0085>", "<U+00A0>", "<U+1680>", "<U+2000>", "<U+2001>", "<U+2002>",
     "<U+2003>", "<U+2004>", "<U+2005>", "<U+2006>", "<U+2007>", "<U+2008>",
     "<U+2009>", "<U+200A>", "<U+2028>", "<U+2029>", "<U+202F>", "<U+205F>",
     "<U+3000>"}

\* The web form's url field, in pieces: a piece is one whitespace character or
\* a run of other characters.
FORM_URLS ==
    {NoField, <<>>, <<" ">>, <<" ", "\t", "\n">>, <<"\r">>, <<"\r", "\n">>, <<"\f">>,
     <<"<U+000B>", "<U+0085>", "<U+00A0>", "<U+3000>">>,
     <<"https://www.uscis.gov/a.pdf">>,
     <<" ", "https://www.uscis.gov/a.pdf", "\n">>,
     <<"https://www.uscis.gov/a.pdf", "\r", "\n">>,
     <<"<U+00A0>", "https://www.uscis.gov/b.pdf", "<U+2003>">>,
     <<"\t", "https://www.uscis.gov/a.pdf", " ", "x">>}

\* request.form.get("url", "")
form_get(form) == IF form = NoField THEN <<>> ELSE form

RECURSIVE lstrip(_)
lstrip(s) == IF Len(s) > 0 /\ Head(s) \in WHITESPACE THEN lstrip(Tail(s)) ELSE s
RECURSIVE rstrip(_)
rstrip(s) ==
    IF Len(s) > 0 /\ s[Len(s)] \in WHITESPACE THEN rstrip(SubSeq(s, 1, Len(s) - 1)) ELSE s

\* str.strip
strip(s) == rstrip(lstrip(s))

\* str.strip on the values of the url field.
RunStrip ==
    /\ \E form \in FORM_URLS :
         probe' = [fn |-> "strip", arg |-> form, out |-> strip(form_get(form))]
    /\ UNCHANGED <<pipeline, request, lastSaved, overlapped>>

UnitNext ==
    \/ RunFetcher
    \/ RunPrompt
    \/ RunKey
    \/ RunStrip

\* The functions are run in a process that found cases/ empty.
UnitInit == Init /\ \A k \in KEYS : cache[k] = NoFile

UnitSpec == UnitInit /\ [][UnitNext]_vars

(* --------------------------- the cache store -------------------------- *)

\* get_cached_case(url) run from its first line to its return on the directory c.
get_cached_case(c, u) ==
    LET file == c[url_to_cache_key(u)] IN
    IF path_exists(file) THEN json_load(file) ELSE Ok(PyNone)

\* save_cached_case(url, data) run from its first line to its last on c.
save_cached_case(c, u, d) ==
    [c EXCEPT ![url_to_cache_key(u)] = write_from_start(TruncatedFile, json_dump(d))]

RECURSIVE sum_counts(_, _)
\* The sum of a counter over a set of keys.
sum_counts(count, keys) ==
    IF keys = {} THEN 0
    ELSE LET k == CHOOSE x \in keys : TRUE IN count[k] + sum_counts(count, keys \ {k})

\* The dicts the threads save: two full records whose JSON texts differ in
\* length by one byte, and a partial record with a non-empty list.
SAVE_RECORDS == {DictFullA, DictFullB, DictPartial}

\* save_cached_case(u, d) is called on its own: the caller stands before its
\* open(json_path, "w").
SaveCall(p, u, d) ==
    /\ pc[p] \in IDLE
    /\ sum_counts(putCount, KEYS) < MaxPuts
    /\ putCount' = [putCount EXCEPT ![url_to_cache_key(u)] = @ + 1]
    /\ pc' = [pc EXCEPT ![p] = "PERSISTING"]
    /\ url' = [url EXCEPT ![p] = u]
    /\ data' = [data EXCEPT ![p] = d]
    /\ nput' = [nput EXCEPT ![p] = 0]
    /\ err' = [err EXCEPT ![p] = NoErr]
    /\ seen' = [seen EXCEPT ![p] = NoFile]
    /\ UNCHANGED <<cache, cached, pdf_bytes, text_chunk, raw_content, ret, nfetch, nmodel,
                   ncalls, aside>>
    /\ UNCHANGED <<fetchCount, modelCount, okSnap, afterOK, cache0, lastCaller>>

\* save_cached_case: json.dump and the close of the file, as in Dump; the
\* observer notes the dict that was written.
SaveDump(p) ==
    /\ Dump(p)
    /\ lastSaved' = [lastSaved EXCEPT ![url[p]] = data[p]]
    /\ UNCHANGED <<watched, probe, request, overlapped>>

\* save_cached_case returns (None).
SaveReturn(p) ==
    /\ pc[p] = "SAVED"
    /\ pc' = [pc EXCEPT ![p] = "UNSTARTED"]
    /\ data' = [data EXCEPT ![p] = PyNone]
    /\ probe' = [fn |-> "save_cached_case", arg |-> [url |-> url[p], data |-> data[p]],
                 out |-> Ok(PyNone)]
    /\ UNCHANGED <<cache, url, cached, pdf_bytes, text_chunk, raw_content, outcome,
                   counters, history, watched, request, lastSaved, overlapped>>

\* get_cached_case(u) is called on its own: the caller stands before its
\* os.path.exists(json_path).
GetCall(p, u) ==
    /\ pc[p] \in IDLE
    /\ pc' = [pc EXCEPT ![p] = "CACHE_LOOKUP"]
    /\ url' = [url EXCEPT ![p] = u]
    /\ cached' = [cached EXCEPT ![p] = PyNone]
    /\ err' = [err EXCEPT ![p] = NoErr]
    /\ seen' = [seen EXCEPT ![p] = NoFile]
    /\ UNCHANGED <<cache, pdf_bytes, text_chunk, raw_content, data, ret, counters, ncalls,
                   observed>>

\* get_cached_case returns: None, or what json.load gave.
GetReturn(p) ==
    /\ pc[p] = "CACHE_CHECKED"
    /\ pc' = [pc EXCEPT ![p] = "UNSTARTED"]
    /\ cached' = [cached EXCEPT ![p] = PyNone]
    /\ probe' = [fn |-> "get_cached_case", arg |-> [url |-> url[p]], out |-> Ok(cached[p])]
    /\ UNCHANGED <<cache, url, pdf_bytes, text_chunk, raw_content, data, outcome,
                   counters, history, watched, request, lastSaved, overlapped>>

\* The two functions of the cache store called by several threads, in any
\* order and at the same time; each runs its own lines one after the other.
StoreNext ==
    \/ \E p \in Callers, u \in URLS, d \in SAVE_RECORDS : SaveCall(p, u, d)
    \/ \E p \in Callers : OpenForWrite(p) /\ UNCHANGED observed
    \/ \E p \in Callers : SaveDump(p)
    \/ \E p \in Callers : SaveReturn(p)
    \/ \E p \in Callers, u \in URLS : GetCall(p, u)
    \/ \E p \in Callers : CacheExists(p) /\ UNCHANGED observed
    \/ \E p \in Callers : CacheLoad(p) /\ UNCHANGED observed
    \/ \E p \in Callers : GetReturn(p)

StoreSpec == Init /\ [][StoreNext]_vars

(* ---------------------------- the web handler ------------------------- *)

RECURSIVE join(_)
\* The string made of the pieces of a form value.
join(s) == IF Len(s) = 0 THEN "" ELSE Head(s) \o join(Tail(s))

\* The url fields of the POSTs: a missing, an empty and a blank field, and the
\* callers' URLs bare and with whitespace around them.
WEB_FORMS ==
    {NoField, <<>>, <<"\r">>,
     <<"https://www.uscis.gov/a.pdf">>,
     <<" ", "https://www.uscis.gov/a.pdf", "\n">>,
     <<"<U+00A0>", "https://www.uscis.gov/b.pdf", "<U+2003>">>}

\* The requests to "/": a GET, which has no form, and the POSTs.
REQUESTS ==
    {[method |-> "GET", form |-> NoField]} \cup
    {[method |-> "POST", form |-> f] : f \in WEB_FORMS}

NoError == <<>>

\* What index hands to the template, and the arguments process_uscis_case was
\* called with on the way.
Page(u, result, error, text, called) ==
    [url |-> u, result |-> result, error |-> error, json_text |-> text, called |-> called]

\* A handler that passes the field on as typed, without strip().
IndexBeginNoStrip(p, method, form) ==
    /\ request[p] = NoRequest
    /\ pc[p] \in IDLE
    /\ LET u == IF method = "POST" THEN form_get(form) ELSE <<>> IN
       IF Len(u) > 0
       THEN /\ Call(p, join(u))
            /\ request' = [request EXCEPT ![p] = [method |-> method, form |-> form]]
            /\ UNCHANGED probe
       ELSE /\ probe' = [fn |-> "index", arg |-> [method |-> method, form |-> form],
                         out |-> Page("", PyNone,
                                      IF method = "POST" THEN <<"Please enter a URL.">>
                                      ELSE NoError, <<>>, <<>>)]
            /\ UNCHANGED <<cache, pc, url, locals, outcome, counters, history, request>>
    /\ UNCHANGED <<watched, lastSaved, overlapped>>

\* web_app.index from its first line: a GET, or a POST whose stripped url is
\* empty, goes straight to the template; any other POST calls
\* process_uscis_case(url) with the stripped url.
IndexBegin(p, method, form) ==
    /\ request[p] = NoRequest
    /\ pc[p] \in IDLE
    /\ LET u == IF method = "POST" THEN strip(form_get(form)) ELSE <<>> IN
       IF Len(u) > 0
       THEN /\ Call(p, join(u))
            /\ request' = [request EXCEPT ![p] = [method |-> method, form |-> form]]
            /\ UNCHANGED probe
       ELSE /\ probe' = [fn |-> "index", arg |-> [method |-> method, form |-> form],
                         out |-> Page("", PyNone,
                                      IF method = "POST" THEN <<"Please enter a URL.">>
                                      ELSE NoError, <<>>, <<>>)]
            /\ UNCHANGED <<cache, pc, url, locals, outcome, counters, history, request>>
    /\ UNCHANGED <<watched, lastSaved, overlapped>>

\* web_app.index after process_uscis_case: the dict it returned becomes the
\* result (its JSON text, if the dict is not empty), an exception it raised
\* becomes the error; then the template is rendered.
IndexEnd(p) ==
    /\ request[p] # NoRequest
    /\ pc[p] \in TERMINAL
    /\ probe' = [fn |-> "index", arg |-> request[p],
                 out |-> IF pc[p] = "FAILED"
                         THEN Page(url[p], PyNone, <<"Error processing URL: ", err[p].exc>>,
                                   <<>>, <<url[p]>>)
                         ELSE Page(url[p], ret[p], NoError,
                                   IF DOMAIN ret[p] # {} THEN json_text(ret[p]) ELSE <<>>,
                                   <<url[p]>>)]
    /\ request' = [request EXCEPT ![p] = NoRequest]
    /\ UNCHANGED <<pipeline, lastSaved, overlapped>>

\* Requests to "/" served one after the other; process_uscis_case runs its
\* steps inside the request that called it.
WebNext ==
    \/ \E p \in Callers, r \in REQUESTS :
         /\ \A q \in Callers : ~InFlight(q) /\ request[q] = NoRequest
         /\ IndexBegin(p, r.method, r.form)
    \/ \E p \in Callers : CacheExists(p) /\ UNCHANGED observed
    \/ \E p \in Callers : CacheLoad(p) /\ UNCHANGED observed
    \/ \E p \in Callers : CacheBranch(p) /\ UNCHANGED observed
    \/ \E p \in Callers : Fetch(p) /\ UNCHANGED observed
    \/ \E p \in Callers : ExtractText(p) /\ UNCHANGED observed
    \/ \E p \in Callers : ModelCall(p) /\ UNCHANGED observed
    \/ \E p \in Callers : Parse(p) /\ UNCHANGED observed
    \/ \E p \in Callers : OpenForWrite(p) /\ UNCHANGED observed
    \/ \E p \in Callers : Dump(p) /\ UNCHANGED observed
    \/ \E p \in Callers : ReturnData(p) /\ UNCHANGED observed
    \/ \E p \in Callers : IndexEnd(p)

WebSpec == Init /\ [][WebNext]_vars

(* ------------------------- what the claims speak of ------------------- *)

\* data.get(k): None when the key is absent.
dict_get(d, k) == IF k \in DOMAIN d THEN d[k] ELSE JsonNull

\* day4_structured_extraction: not data.get("case_id") or data["case_id"] in
\* [None, "", "unknown"]
needs_fallback(d) ==
    \/ dict_get(d, "case_id") \in {JsonNull, ""}
    \/ dict_get(d, "case_id") \in {JsonNull, "", "unknown"}

\* The shape the prompt asks the model for: the 16 fields, a permitted outcome.
is_case_record(d) ==
    /\ DOMAIN d = FIELDS
    /\ d.decision_outcome \in OUTCOMES

\* The states of the spec's per-call state machine, as positions in the code:
\* get_cached_case is the step to CACHE_CHECKED, json.loads belongs to the model
\* step, and save_cached_case (the open, the dump) and the way back from it are
\* the persisting step.
Phase(s) ==
    CASE s \in {"CACHE_LOOKUP", "CACHE_LOAD"} -> "UNSTARTED"
      [] s = "PARSING" -> "MODEL_CALLING"
      [] s \in {"WRITING", "SAVED"} -> "PERSISTING"
      [] OTHER -> s

PipelineErrors ==
    {"download_pdf_bytes", "extract_text_from_pdf_bytes", "chat.completions.create",
     "json.loads"}

(* --------------------------------- C1 --------------------------------- *)

\* C1: a call whose cache lookup read a stored record returns exactly that
\* record and does nothing else: no download, no text extraction, no model
\* call, no cache write, no error, whatever the record is.
C1_CacheHitAuthoritative ==
    \A p \in Callers :
      /\ seen[p].kind = "json" =>
           /\ pc[p] \in {"CACHE_CHECKED", "CACHE_HIT"}
           /\ pc[p] = "CACHE_CHECKED" => cached[p] = json_load(seen[p]).val
           /\ nfetch[p] = 0 /\ nmodel[p] = 0 /\ nput[p] = 0
           /\ pdf_bytes[p] = NoBytes /\ text_chunk[p] = NoText
           /\ err[p] = NoErr
      /\ pc[p] = "CACHE_HIT" => seen[p].kind = "json" /\ ret[p] = json_load(seen[p]).val

\* A hit that returns a stored record violating the schema, untouched.
C1_Witness ==
    \E p \in Callers :
      /\ pc[p] = "CACHE_HIT"
      /\ ret[p] = DictBadOutcome
      /\ cache[key(p)] = json_dump(DictBadOutcome)

(* --------------------------------- C2 --------------------------------- *)

\* C2: with non-overlapping calls, once a call on a URL has run the pipeline to
\* the end (one download, one model call), every later call on that URL is a
\* cache hit returning the same record, and the URL's download and model-call
\* counts stay what they were.
C2_Idempotence ==
    \A u \in URLS :
      okSnap[u].set =>
        /\ okSnap[u].cf = 1 /\ okSnap[u].cm = 1
        /\ fetchCount[u] = okSnap[u].nf
        /\ modelCount[u] = okSnap[u].nm
        /\ \A p \in Callers :
             (url[p] = u /\ afterOK[p]) =>
               /\ pc[p] \in {"CACHE_LOOKUP", "CACHE_LOAD", "CACHE_CHECKED", "CACHE_HIT"}
               /\ pc[p] = "CACHE_HIT" => ret[p] = okSnap[u].rec

\* A later call on the URL has returned, and the URL was fetched exactly once.
C2_Witness ==
    \E p \in Callers :
      /\ pc[p] = "CACHE_HIT"
      /\ afterOK[p]
      /\ okSnap[url[p]].set
      /\ fetchCount[url[p]] = 1
      /\ modelCount[url[p]] = 1

(* --------------------------------- C3 --------------------------------- *)

\* C3: with non-overlapping calls, a call that failed in the download, the text
\* extraction, the model call or the parse leaves the whole cache as it was when
\* the call started, with no entry for its URL, so the next call misses again.
C3_AllOrNothing ==
    \A p \in Callers :
      (pc[p] = "FAILED" /\ lastCaller = p /\ err[p].at \in PipelineErrors) =>
        /\ cache = cache0
        /\ ~path_exists(cache[key(p)])
        /\ nput[p] = 0

\* A call failed at the parse while another URL's entry sits in the cache.
C3_Witness ==
    \E p \in Callers :
      /\ pc[p] = "FAILED"
      /\ lastCaller = p
      /\ err[p].at = "json.loads"
      /\ \E k \in KEYS : cache[k].kind = "json"

(* --------------------------------- C4 --------------------------------- *)

\* C4: a call that missed the cache returns, and leaves in the cache, a record
\* whose case_id is never absent, empty, null or "unknown" when the model's
\* case_id was one of these, and is the model's case_id otherwise.
C4_CaseIdFallback ==
    /\ \A p \in Callers :
         pc[p] = "DONE" =>
           LET parsed == json_loads(raw_content[p]).val IN
           IF needs_fallback(parsed)
           THEN ~needs_fallback(ret[p])
           ELSE dict_get(ret[p], "case_id") = parsed.case_id
    /\ \A k \in KEYS : cache[k].kind = "json" => ~needs_fallback(json_load(cache[k]).val)

(* --------------------------------- C5 --------------------------------- *)

\* C5: a call whose lookup finds a cache file that is not valid JSON ends with
\* the error of the cache read (the decoder's, or the one of reading bytes that
\* are no text); it downloads nothing, calls no model, returns nothing, and the
\* step that fails leaves every cache file as it is.
C5_CorruptionFatal ==
    /\ [](\A p \in Callers :
            (seen[p].exists /\ seen[p].kind # "json") =>
              /\ pc[p] = "FAILED"
              /\ err[p].at = "get_cached_case"
              /\ err[p].exc = IF seen[p].kind = "binary" THEN "UnicodeDecodeError"
                              ELSE "JSONDecodeError"
              /\ ret[p] = PyNone
              /\ nfetch[p] = 0 /\ nmodel[p] = 0 /\ nput[p] = 0)
    /\ [][\A p \in Callers :
            (pc[p] = "CACHE_LOAD" /\ pc'[p] # pc[p] /\ cache[key(p)].kind # "json") =>
              /\ pc'[p] = "FAILED"
              /\ cache' = cache]_vars

\* A file replaced by garbage, a call on its URL failed, the garbage still there.
C5_Witness ==
    \E p \in Callers :
      /\ pc[p] = "FAILED"
      /\ seen[p] = GarbageFile
      /\ cache[key(p)] = GarbageFile
      /\ err[p].at = "get_cached_case"

(* --------------------------------- C6 --------------------------------- *)

\* C6: every value a call returns and every complete cache entry is a record
\* with exactly the 16 fields and a permitted decision_outcome (an answer of
\* the model that is not such a record having ended the call in an error).
C6_SchemaComplete ==
    /\ \A p \in Callers : pc[p] \in {"DONE", "CACHE_HIT"} => is_case_record(ret[p])
    /\ \A k \in KEYS : cache[k].kind = "json" => is_case_record(json_load(cache[k]).val)

(* --------------------------------- C7 --------------------------------- *)

\* C7: when two calls on one URL overlap and both write, the file holds the
\* record of the put that ran last and each caller is returned its own record:
\* every json.dump that completes on a file holding what calls leave there
\* (nothing yet, or a record) leaves the caller's own parsed answer in the
\* file, and the call then returns that same answer.
C7_LastPutWins ==
    [][\A p \in Callers :
         /\ (pc[p] = "WRITING" /\ pc'[p] = "SAVED"
                /\ cache[key(p)].kind \in {"empty", "json"}) =>
              /\ data[p] = json_loads(raw_content[p]).val
              /\ cache'[key(p)] = json_dump(data[p])
         /\ (pc[p] = "SAVED" /\ pc'[p] = "DONE") => ret'[p] = data[p]]_vars

(* --------------------------------- C8 --------------------------------- *)

\* C8: with non-overlapping calls, save_cached_case runs at most once per key,
\* a file once there stays there, and a complete entry never changes.
C8_WriteOnce ==
    /\ [](\A k \in KEYS : putCount[k] <= 1)
    /\ [][\A k \in KEYS :
            /\ cache[k].exists => cache'[k].exists
            /\ cache[k].kind = "json" => cache'[k] = cache[k]]_vars

\* A key was written once, and a later call on it hit the cache: no second put.
C8_Witness ==
    \E p \in Callers :
      /\ pc[p] = "CACHE_HIT"
      /\ putCount[key(p)] = 1
      /\ cache[key(p)].kind = "json"

(* --------------------------------- C9 --------------------------------- *)

\* The steps of the state machine as the claim lists them.
ClaimedSteps ==
    {<<"UNSTARTED", "CACHE_CHECKED">>, <<"CACHE_CHECKED", "CACHE_HIT">>,
     <<"CACHE_CHECKED", "FETCHING">>, <<"FETCHING", "EXTRACTING_TEXT">>,
     <<"EXTRACTING_TEXT", "MODEL_CALLING">>, <<"MODEL_CALLING", "PERSISTING">>,
     <<"PERSISTING", "DONE">>, <<"FETCHING", "FAILED">>,
     <<"EXTRACTING_TEXT", "FAILED">>, <<"MODEL_CALLING", "FAILED">>}

\* The step the claim leaves out: the cache lookup itself fails.
AmendedSteps == ClaimedSteps \cup {<<"UNSTARTED", "FAILED">>}

\* The moves inside one state of the state machine: from the existence test to
\* the read of the file, from the model call to the parse of its answer, from
\* the opening of the cache file to the dump and on to the return.
SubSteps ==
    {<<"CACHE_LOOKUP", "CACHE_LOAD">>, <<"MODEL_CALLING", "PARSING">>,
     <<"PERSISTING", "WRITING">>, <<"WRITING", "SAVED">>}

\* A step of caller p: none, a new call, a move inside one state, or a step of
\* the state machine in `steps`; a state is left for the next one only from its
\* last position (the answer parsed, the file written), so that no part of a
\* state is skipped, and nothing is done twice.
StepAllowed(p, steps) ==
    \/ pc'[p] = pc[p] /\ nfetch'[p] = nfetch[p] /\ nmodel'[p] = nmodel[p]
                      /\ nput'[p] = nput[p]
    \/ pc[p] \in IDLE /\ pc'[p] = "CACHE_LOOKUP"
    \/ <<pc[p], pc'[p]>> \in SubSteps
    \/ /\ <<Phase(pc[p]), Phase(pc'[p])>> \in steps
       /\ pc'[p] = Phase(pc'[p])
       /\ pc'[p] # "FAILED" => pc[p] \notin {"MODEL_CALLING", "PERSISTING", "WRITING"}
       /\ nfetch'[p] <= 1 /\ nmodel'[p] <= 1 /\ nput'[p] <= 1

\* The cache is written only by a call whose model answer has parsed.
WriteAfterParse ==
    /\ [](\A p \in Callers :
            pc[p] \in {"PERSISTING", "WRITING", "SAVED"} =>
              /\ json_loads(raw_content[p]).ok
              /\ data[p] = json_loads(raw_content[p]).val)
    /\ [][\A k \in KEYS :
            cache'[k] # cache[k] =>
              \E p \in Callers :
                /\ key(p) = k
                /\ pc[p] \in {"PERSISTING", "WRITING"}
                /\ pc'[p] # pc[p]]_vars

\* As a call reaches DONE the cache holds its returned record under its key.
DoneIsCached ==
    [][\A p \in Callers :
         (pc'[p] = "DONE" /\ pc[p] # "DONE") => cache'[key(p)] = json_dump(ret'[p])]_vars

\* The same for the calls during which no other call on the same URL was
\* under way.
DoneIsCachedAlone ==
    [][\A p \in Callers :
         (pc'[p] = "DONE" /\ pc[p] # "DONE" /\ ~overlapped[p]) =>
           cache'[key(p)] = json_dump(ret'[p])]_vars

\* Every call that has started reaches CACHE_HIT, DONE or FAILED: no caller
\* stays inside a call for ever (and a call is left only through these three).
EveryCallEnds == \A p \in Callers : []<>(pc[p] \in IDLE)

C10_NoRetry ==
    \A p \in Callers :
      /\ nfetch[p] <= 1 /\ nmodel[p] <= 1 /\ nput[p] <= 1
      /\ err[p] # NoErr <=> pc[p] = "FAILED"
      /\ pc[p] = "FAILED" =>
           /\ ret[p] = PyNone
           /\ nput[p] = 0
           /\ err[p].at = "get_cached_case" => nfetch[p] = 0 /\ nmodel[p] = 0
           /\ err[p].at = "download_pdf_bytes" => nfetch[p] = 1 /\ nmodel[p] = 0
           /\ err[p].at = "extract_text_from_pdf_bytes" => nfetch[p] = 1 /\ nmodel[p] = 0
           /\ err[p].at = "chat.completions.create" => nfetch[p] = 1 /\ nmodel[p] = 1
           /\ err[p].at = "json.loads" => nfetch[p] = 1 /\ nmodel[p] = 1
      /\ pc[p] \in {"DONE", "CACHE_HIT"} => ret[p] # PyNone

\* The model backend failed after the one download: the call is over.
C10_Witness ==
    \E p \in Callers :
      /\ pc[p] = "FAILED"
      /\ err[p].at = "chat.completions.create"
      /\ nfetch[p] = 1
      /\ nmodel[p] = 1
      /\ ret[p] = PyNone
(* --------------------------------- C11 -------------------------------- *)

\* The exceptions of the transport: requests raises them, or raise_for_status.
FetchErrors == {"Timeout", "ConnectionError", "HTTPError", "ChunkedEncodingError"}
\* A success status: 2xx.
IsSuccess(status) == status >= 200 /\ status < 300
\* The header is there and has p, d, f in a row, each in either case.
HasMarker(ct) ==
    /\ ct # NoHeader
    /\ \E i \in 1..(Len(ct) - 2) :
         ct[i] \in {"p", "P"} /\ ct[i + 1] \in {"d", "D"} /\ ct[i + 2] \in {"f", "F"}

(* C11: download_pdf_bytes returns the body only if the status is a success
   and the Content-Type contains "pdf" in any letter case; a timeout, a
   connection error or a non-success status raises a fetch error whatever
   the Content-Type says; a success response whose Content-Type is missing
   or has no "pdf" raises a ValueError that names the Content-Type received;
   a success response with the marker whose body breaks off on the way
   raises a fetch error; nothing is returned when it raises. *)
C11_FetcherOutcome ==
    probe.fn = "download_pdf_bytes" =>
        LET resp == probe.arg
            r == probe.out
            failed == resp.transport # "ok" \/ ~IsSuccess(resp.status)
            broken == resp.read # "ok"
        IN /\ r.ok <=> (~failed /\ HasMarker(resp.ctype) /\ ~broken)
           /\ r.ok => r.val = resp.body
           /\ failed => r.exc \in FetchErrors
           /\ (~failed /\ ~HasMarker(resp.ctype)) =>
                 /\ r.exc = "ValueError"
                 /\ r.msg[2] = (IF resp.ctype = NoHeader THEN <<>> ELSE resp.ctype)
           /\ (~failed /\ HasMarker(resp.ctype) /\ broken) => r.exc \in FetchErrors
           /\ ~r.ok => r.val = PyNone

(* --------------------------------- C12 -------------------------------- *)

(* C12: the text put into the model's prompt is the first 12000 characters
   of the extracted text when the text is longer than that, and the whole
   text unchanged otherwise; no character of the prompt's text comes from
   beyond position 12000. *)
C12_PromptTruncation ==
    probe.fn = "messages" =>
        LET full_text == probe.arg
            sent == probe.out[2].content[2]
        IN /\ Len(full_text) > WINDOW =>
                /\ Len(sent) = WINDOW
                /\ \A i \in 1..WINDOW : sent[i] = full_text[i]
           /\ Len(full_text) <= WINDOW => sent = full_text
           /\ Len(sent) <= WINDOW
C12_Witness ==
    /\ probe.fn = "messages"
    /\ Len(probe.arg) > WINDOW
    /\ probe.arg[1] = 1
    /\ Len(probe.out[2].content[2]) = WINDOW
    /\ probe.out[2].content[2][WINDOW] = WINDOW

(* --------------------------------- C13 -------------------------------- *)

(* C13: get_cached_case on a URL that has no file in cases/ returns None and
   raises nothing; once a save_cached_case on the URL has written, every
   get_cached_case on the URL finds the file, raises nothing and returns a
   dict equal to the one written last, never None; and what get_cached_case
   returns is what it read. *)
C13_PutGet ==
    [][\A p \in Callers :
         /\ (pc[p] = "CACHE_LOOKUP" /\ pc'[p] # pc[p] /\ ~path_exists(cache[key(p)])) =>
               /\ pc'[p] = "CACHE_CHECKED"
               /\ cached'[p] = PyNone
         /\ (pc[p] \in {"CACHE_LOOKUP", "CACHE_LOAD"} /\ pc'[p] # pc[p]
                /\ lastSaved[url[p]] # PyNone) =>
               /\ pc'[p] # "FAILED"
               /\ pc[p] = "CACHE_LOOKUP" => pc'[p] = "CACHE_LOAD"
               /\ pc[p] = "CACHE_LOAD" => cached'[p] = lastSaved[url[p]]
         /\ (pc[p] = "CACHE_CHECKED" /\ pc'[p] # pc[p]) =>
               /\ probe'.fn = "get_cached_case"
               /\ probe'.out = Ok(cached[p])]_vars

(* --------------------------------- C14 -------------------------------- *)

HEX_DIGITS == {"0", "1", "2", "3", "4", "5", "6", "7", "8", "9", "a", "b", "c", "d", "e", "f"}

(* C14: the cache key of a URL is 16 hexadecimal characters, no two different
   URLs have the same key, and a URL has the key it had in any other run:
   the lookup and the save of a URL address one and the same entry. *)
C14_KeyOfUrl ==
    probe.fn = "url_to_cache_key" =>
        /\ Len(probe.out) = 16
        /\ \A i \in 1..Len(probe.out) : probe.out[i] \in HEX_DIGITS
        /\ \A u \in URLS \cup URL_VARIANTS :
             (url_to_cache_key(u) = probe.out) <=> (u = probe.arg)
        /\ \A u \in URLS :
             get_cached_case(save_cached_case(cache, u, DictFullA), u).val = DictFullA
C14_Witness ==
    /\ probe.fn = "url_to_cache_key"
    /\ probe.arg = "https://www.uscis.gov/A.pdf"
    /\ probe.out # url_to_cache_key("https://www.uscis.gov/a.pdf")

(* --------------------------------- C15 -------------------------------- *)

(* C15: a lookup made while another call is writing the entry of the same
   URL reads no entry or the complete record: json.load never reads the
   file empty or partly written, so no call fails in the lookup because of
   a write that was under way (a lookup may still fail on a file replaced
   by hand in the meantime). *)
C15_NoTornRead ==
    [][\A p \in Callers :
         (/\ pc[p] = "CACHE_LOAD"
          /\ pc'[p] # pc[p]
          /\ \E q \in Callers \ {p} : url[q] = url[p] /\ pc[q] = "WRITING") =>
           /\ seen'[p] # TruncatedFile
           /\ pc'[p] = "FAILED" => seen'[p] \in {GarbageFile, BinaryFile}]_vars

(* --------------------------------- C16 -------------------------------- *)

(* C16: every step of a process_uscis_case call, whether the call hits, saves
   or fails, leaves the cache file of every key but its own URL's as it
   was, and the file its json.load reads is the one under its own key; this
   holds while calls on different URLs are under way at once. *)
C16_Frame ==
    [][\A p \in Callers :
         pc'[p] # pc[p] =>
           /\ \A k \in KEYS \ {url_to_cache_key(url'[p])} : cache'[k] = cache[k]
           /\ pc[p] = "CACHE_LOAD" => seen'[p] = cache[url_to_cache_key(url[p])]]_vars

\* Two calls on different URLs are both in the middle of their writes: each
\* has emptied the file of its own key.
C16_Witness ==
    \E p, q \in Callers :
      /\ url[p] # url[q]
      /\ pc[p] = "WRITING" /\ pc[q] = "WRITING"
      /\ url_to_cache_key(url[p]) # url_to_cache_key(url[q])
      /\ cache[url_to_cache_key(url[p])] = TruncatedFile
      /\ cache[url_to_cache_key(url[q])] = TruncatedFile

(* --------------------------------- C17 -------------------------------- *)

\* The field is missing or has nothing but whitespace in it.
IsBlank(form) == form = NoField \/ \A i \in 1..Len(form) : form[i] \in WHITESPACE
\* The field from its first to its last piece that is not whitespace.
Trimmed(form) ==
    LET solid == {i \in 1..Len(form) : form[i] \notin WHITESPACE} IN
    SubSeq(form, CHOOSE i \in solid : \A j \in solid : i <= j,
                 CHOOSE i \in solid : \A j \in solid : i >= j)

(* C17: the web handler does not call process_uscis_case for a GET, nor for
   a POST whose url field is missing, empty or all whitespace, which shows
   "Please enter a URL."; for a POST with any other url field it calls
   process_uscis_case once, with the field stripped of the whitespace around
   it; an exception of process_uscis_case becomes the page's error, with no
   result, and a dict it returns becomes the result, with no error; no page
   has both a result and an error; and no step of the handler itself changes
   a cache file. *)
C17_WebHandler ==
    /\ [](probe.fn = "index" =>
            LET method == probe.arg.method
                form == probe.arg.form
                page == probe.out
            IN /\ (method = "GET" \/ IsBlank(form)) => page.called = <<>>
               /\ (method = "POST" /\ IsBlank(form)) =>
                     page.error = <<"Please enter a URL.">> /\ page.result = PyNone
               /\ (method = "POST" /\ ~IsBlank(form)) =>
                     page.called = <<join(Trimmed(form))>>
               /\ ~(page.result # PyNone /\ page.error # NoError))
    /\ [][\A p \in Callers :
            /\ (request[p] = NoRequest /\ request'[p] # NoRequest) =>
                  /\ request'[p].method = "POST"
                  /\ ~IsBlank(request'[p].form)
                  /\ pc'[p] = "CACHE_LOOKUP"
                  /\ url'[p] = join(Trimmed(request'[p].form))
                  /\ ncalls' = ncalls + 1
            /\ (request'[p] = request[p] /\ probe' # probe) =>
                  /\ pc' = pc
                  /\ ncalls' = ncalls
            /\ request[p] # NoRequest =>
                  /\ ncalls' = ncalls
                  /\ url'[p] = url[p]
            /\ (request[p] # NoRequest /\ request'[p] = NoRequest) =>
                  /\ probe'.arg = request[p]
                  /\ pc[p] = "FAILED" =>
                        /\ probe'.out.result = PyNone
                        /\ probe'.out.error = <<"Error processing URL: ", err[p].exc>>
                  /\ pc[p] # "FAILED" =>
                        /\ probe'.out.result = ret[p]
                        /\ probe'.out.error = NoError
            /\ (request' # request \/ probe' # probe) => cache' = cache]_vars

\* A POST with whitespace around the URL was answered with an error page: the
\* cache file of the URL was not JSON, and the lookup's exception is shown.
C17_Witness ==
    /\ probe.fn = "index"
    /\ probe.arg.method = "POST"
    /\ probe.arg.form = <<" ", "https://www.uscis.gov/a.pdf", "\n">>
    /\ probe.out.called = <<"https://www.uscis.gov/a.pdf">>
    /\ probe.out.error = <<"Error processing URL: ", "JSONDecodeError">>
    /\ probe.out.result = PyNone
    /\ \E p \in Callers : pc[p] = "FAILED" /\ url[p] = "https://www.uscis.gov/a.pdf"

====
